---- MODULE Spec2Model ----
(***************************************************************************)
(* Model of the credential negotiation of git2-commit (src/utils.rs):      *)
(* with_authentication builds the session state and hands the transport a  *)
(* credentials callback; the transport invokes the callback with the set   *)
(* of credential kinds it accepts, any number of times, one after another. *)
(***************************************************************************)
EXTENDS Integers, Sequences, FiniteSets, TLC

\* ------------------------------------------------------------------------
\* Values
\* ------------------------------------------------------------------------

\* Option::None / a variable that is not set in the environment.
None == "<none>"

\* The flags of git2::CredentialType the callback looks at.
USERNAME == "USERNAME"
USER_PASS_PLAINTEXT == "USER_PASS_PLAINTEXT"
SSH_KEY == "SSH_KEY"
DEFAULT == "DEFAULT"

KnownKinds == {USERNAME, USER_PASS_PLAINTEXT, SSH_KEY, DEFAULT}

\* A flag of git2::CredentialType that no branch of the callback handles.
SSH_CUSTOM == "SSH_CUSTOM"

Kinds == KnownKinds \cup {SSH_CUSTOM}

\* The sets of kinds a transport asks for: every combination of the kinds the
\* callback handles, and requests made only of kinds it does not handle.
RequestedSets == (SUBSET KnownKinds) \cup {{SSH_CUSTOM}}

\* enum UsernameAttempt, in declaration order.
UsernameAttempt == <<"Arg", "CredHelper", "Local", "Git">>

\* Inputs the model draws from: the `username` argument of one invocation,
\* the username the credential helper is configured with, and the process
\* environment.
ArgNames == {None, "deploy"}
HelperNames == {None, "helperuser"}
UserValues == {None, "alice"}
UsernameValues == {None, "winuser"}
TokenValues == {None, "T"}

\* The refspec argument of fetch.
Refspecs == {"refs/heads/*:refs/heads/*", "refs/tags/*:refs/tags/*"}

NoAuthMessage == "no authentication available"

VARIABLES
    attempted,          \* git2::CredentialType: the kinds tried so far
    failed_cred_helper, \* whether the last credential-helper lookup failed
    username_attempt,   \* the next username source of the SSH_KEY branch
    username_attempts,  \* the usernames handed to the ssh agent, in order
    cred_helper,        \* git2::CredentialHelper built from the url and cfg
    env,                \* the process environment the callback reads
    last,               \* observation: the latest invocation and its result
    returned,           \* observation: results returned so far, per branch
    consulted,          \* observation: username sources consulted so far
    fetch,              \* the call of fetch the session belongs to, if any
    sessions,           \* the captured variables of concurrent calls
    actor               \* observation: the call that took the latest step

vars == <<attempted, failed_cred_helper, username_attempt, username_attempts,
          cred_helper, env, last, returned, consulted, fetch, sessions,
          actor>>

Branches == {"Username", "Token", "SshAgent", "CredHelper", "Default"}

\* ------------------------------------------------------------------------
\* The callback, as a function of the session state and its arguments
\* ------------------------------------------------------------------------

\* Mark as an assignment of the flag alone: `attempted = KIND`.
MarkOnly(att, kind) == {kind}

\* `attempted = attempted | KIND`
Mark(att, kind) == att \cup {kind}

\* Allowed without the mask: `allowed` as the transport passed it.
AllowedUnmasked(requested, att) == requested

\* Allowed without the request: `!attempted`.
AllowedIgnoresRequest(requested, att) == Kinds \ att

\* `allowed & !attempted`
Allowed(requested, att) == requested \ att

\* env::var("USER").or_else(|_| env::var("USERNAME")).ok()
LocalName(e) == IF e.USER # None THEN e.USER ELSE e.USERNAME

\* TokenAvailable when the environment is never looked at.
TokenNeverAvailable(e) == FALSE

\* `if let Ok(token) = env::var("GH_TOKEN")`
TokenAvailable(e) == e.GH_TOKEN # None

\* UnwrapOr that always takes the default.
UnwrapOrDefault(username, default) == default

\* username.unwrap_or("git")
UnwrapOr(username, default) == IF username # None THEN username ELSE default

\* A Result<Cred, Error> the callback returns: `branch` is the branch of the
\* callback that produced it, `kind` the credential kind it answers, `ok`
\* whether it is Ok(cred) or Err(e). The ssh-agent and the credential-helper
\* lookups succeed or fail as the agent and the helper decide (the argument
\* ok of the callback); Cred::username, Cred::userpass_plaintext and
\* Cred::default only wrap the strings they are given and return Ok.
Ret(branch, kind, ok, user, secret) ==
    [branch |-> branch, kind |-> kind, ok |-> ok,
     user |-> IF ok THEN user ELSE None,
     secret |-> IF ok THEN secret ELSE None,
     lookup |-> user,
     err |-> IF ok THEN None ELSE branch]

\* Err(git2::Error::from_str("no authentication available"))
NoAuth ==
    [branch |-> "NoAuth", kind |-> None, ok |-> FALSE, user |-> None,
     secret |-> None, lookup |-> None, err |-> NoAuthMessage]

\* MatchUsernameAttempt with the arms for CredHelper and Local in each
\* other's place: Arg, Local, CredHelper, Git.
MatchUsernameAttemptSwapped(cursor, att, username, helper, e) ==
    CASE cursor = "Arg" ->
            [name |-> username, cursor |-> "Local", attempted |-> att]
      [] cursor = "Local" ->
            [name |-> LocalName(e), cursor |-> "CredHelper",
             attempted |-> att]
      [] cursor = "CredHelper" ->
            [name |-> helper.username, cursor |-> "Git", attempted |-> att]
      [] cursor = "Git" ->
            [name |-> "git", cursor |-> "Git",
             attempted |-> att \cup {SSH_KEY}]

\* MatchUsernameAttempt that marks SSH_KEY one source early, in the arm for
\* Local.
MatchUsernameAttemptMarkEarly(cursor, att, username, helper, e) ==
    CASE cursor = "Arg" ->
            [name |-> username, cursor |-> "CredHelper", attempted |-> att]
      [] cursor = "CredHelper" ->
            [name |-> helper.username, cursor |-> "Local", attempted |-> att]
      [] cursor = "Local" ->
            [name |-> LocalName(e), cursor |-> "Git",
             attempted |-> att \cup {SSH_KEY}]
      [] cursor = "Git" ->
            [name |-> "git", cursor |-> "Git",
             attempted |-> att \cup {SSH_KEY}]

\* MatchUsernameAttempt with an arm for Git that forgets to mark SSH_KEY.
MatchUsernameAttemptNoMark(cursor, att, username, helper, e) ==
    CASE cursor = "Arg" ->
            [name |-> username, cursor |-> "CredHelper", attempted |-> att]
      [] cursor = "CredHelper" ->
            [name |-> helper.username, cursor |-> "Local", attempted |-> att]
      [] cursor = "Local" ->
            [name |-> LocalName(e), cursor |-> "Git", attempted |-> att]
      [] cursor = "Git" ->
            [name |-> "git", cursor |-> "Git", attempted |-> att]

\* One arm of `match username_attempt`: the source's name (or None), the
\* next value of username_attempt and of attempted.
MatchUsernameAttempt(cursor, att, username, helper, e) ==
    CASE cursor = "Arg" ->
            [name |-> username, cursor |-> "CredHelper", attempted |-> att]
      [] cursor = "CredHelper" ->
            [name |-> helper.username, cursor |-> "Local", attempted |-> att]
      [] cursor = "Local" ->
            [name |-> LocalName(e), cursor |-> "Git", attempted |-> att]
      [] cursor = "Git" ->
            [name |-> "git", cursor |-> "Git",
             attempted |-> Mark(att, SSH_KEY)]

\* The `loop` of the SSH_KEY branch: sources are consulted until one yields
\* a name. `seen` collects the sources consulted by this invocation.
RECURSIVE UsernameLoop(_, _, _, _, _, _)
UsernameLoop(cursor, att, username, helper, e, seen) ==
    LET m == MatchUsernameAttempt(cursor, att, username, helper, e)
    IN  IF m.name # None
        THEN [name |-> m.name, cursor |-> m.cursor, attempted |-> m.attempted,
              seen |-> Append(seen, cursor)]
        ELSE UsernameLoop(m.cursor, m.attempted, username, helper, e,
                          Append(seen, cursor))

\* The first USER_PASS_PLAINTEXT block: the value of attempted after
\* `attempted = attempted | git2::USER_PASS_PLAINTEXT`, which the code
\* executes before it looks for the token.
TokenStepAttempted(att, token) == Mark(att, USER_PASS_PLAINTEXT)

\* The closure passed to f. s is the captured state; the result is the new
\* captured state, the value returned and the sources the loop consulted.
Credentials(s, e, helper, username, requested, ok) ==
    LET allowed == Allowed(requested, s.attempted)
        out(st, ret, seen) == [state |-> st, ret |-> ret, seen |-> seen]
    IN
    IF USERNAME \in allowed
    THEN out([s EXCEPT !.attempted = Mark(@, USERNAME)],
             Ret("Username", USERNAME, TRUE, UnwrapOr(username, "git"), None),
             <<>>)
    ELSE
    LET att1 == IF USER_PASS_PLAINTEXT \in allowed
                THEN TokenStepAttempted(s.attempted, e.GH_TOKEN)
                ELSE s.attempted
    IN
    IF USER_PASS_PLAINTEXT \in allowed /\ TokenAvailable(e)
    THEN out([s EXCEPT !.attempted = att1],
             Ret("Token", USER_PASS_PLAINTEXT, TRUE, e.GH_TOKEN, ""),
             <<>>)
    ELSE IF SSH_KEY \in allowed
    THEN LET l == UsernameLoop(s.username_attempt, att1, username, helper,
                               e, <<>>)
         IN  out([s EXCEPT !.attempted = l.attempted,
                           !.username_attempt = l.cursor,
                           !.username_attempts = Append(@, l.name)],
                 Ret("SshAgent", SSH_KEY, ok, l.name, None),
                 l.seen)
    ELSE IF USER_PASS_PLAINTEXT \in allowed
    THEN out([s EXCEPT !.attempted = Mark(att1, USER_PASS_PLAINTEXT),
                       !.failed_cred_helper = ~ok],
             Ret("CredHelper", USER_PASS_PLAINTEXT, ok, username, "secret"),
             <<>>)
    ELSE IF DEFAULT \in allowed
    THEN out([s EXCEPT !.attempted = Mark(att1, DEFAULT)],
             Ret("Default", DEFAULT, TRUE, None, None),
             <<>>)
    ELSE out([s EXCEPT !.attempted = att1], NoAuth, <<>>)

\* ------------------------------------------------------------------------
\* The session
\* ------------------------------------------------------------------------

\* The variables the closure captures, as one record.
Session ==
    [attempted |-> attempted,
     failed_cred_helper |-> failed_cred_helper,
     username_attempt |-> username_attempt,
     username_attempts |-> username_attempts]

\* The values with_authentication gives the captured variables.
FreshSession ==
    [attempted |-> {}, failed_cred_helper |-> FALSE,
     username_attempt |-> "Arg", username_attempts |-> <<>>]

NoCall ==
    [called |-> FALSE, requested |-> {}, username |-> None,
     before |-> FreshSession, ret |-> NoAuth, seen |-> <<>>]

\* A Result<(), git2::Error>.
Ok == [ok |-> TRUE, err |-> None]
Err(e) == [ok |-> FALSE, err |-> e]

\* The calls of with_authentication that run side by side, each on behalf
\* of one transfer.
SessionIds == {1, 2}

\* A call that has not started or has returned: it has no variables.
NoSession ==
    [started |-> FALSE,
     state |-> [attempted |-> {}, failed_cred_helper |-> FALSE,
                username_attempt |-> None, username_attempts |-> <<>>]]

\* No call of fetch: with_authentication was called by another caller.
NoFetch ==
    [pc |-> "none", refspec |-> None, attempts |-> <<>>, stage |-> None,
     raised |-> Ok, result |-> Ok]

\* with_authentication up to the call of f: the state the closure captures.
Init ==
    /\ attempted = {}
    /\ failed_cred_helper = FALSE
    /\ username_attempt = "Arg"
    /\ username_attempts = <<>>
    /\ cred_helper \in [username : HelperNames]
    /\ env \in [GH_TOKEN : TokenValues, USER : UserValues,
                USERNAME : UsernameValues]
    /\ last = NoCall
    /\ returned = [b \in Branches |-> 0]
    /\ consulted = <<>>
    /\ fetch = NoFetch
    /\ sessions = [i \in SessionIds |-> NoSession]
    /\ actor = 0

\* The assignments of one invocation to the variables the closure captures.
Apply(r) ==
    /\ attempted' = r.state.attempted
    /\ failed_cred_helper' = r.state.failed_cred_helper
    /\ username_attempt' = r.state.username_attempt
    /\ username_attempts' = r.state.username_attempts
    /\ UNCHANGED <<cred_helper, env, fetch, sessions, actor>>

\* The transport invokes the callback once.
Callback(username, requested, ok) ==
    \E r \in {Credentials(Session, env, cred_helper, username, requested, ok)} :
        /\ Apply(r)
        /\ last' = [called |-> TRUE, requested |-> requested,
                    username |-> username, before |-> Session,
                    ret |-> r.ret, seen |-> r.seen]
        /\ returned' = IF r.ret.branch \in Branches
                       THEN [returned EXCEPT ![r.ret.branch] = @ + 1]
                       ELSE returned
        /\ consulted' = consulted \o r.seen

\* The transport invokes the callback once; the invocation is not recorded
\* in the observations.
Invoke(username, requested, ok) ==
    \E r \in {Credentials(Session, env, cred_helper, username, requested, ok)} :
        /\ Apply(r)
        /\ UNCHANGED <<last, returned, consulted>>

Next ==
    \E username \in ArgNames, requested \in RequestedSets, ok \in BOOLEAN :
        Callback(username, requested, ok)

Spec == Init /\ [][Next]_vars

NextState ==
    \E username \in ArgNames, requested \in RequestedSets, ok \in BOOLEAN :
        Invoke(username, requested, ok)

\* Scenario C: the transport asks for SSH_KEY alone at every invocation and
\* the ssh agent has no identity for any username.
NextScenarioC ==
    \E username \in ArgNames : Callback(username, {SSH_KEY}, FALSE)

SpecScenarioC == Init /\ [][NextScenarioC]_vars

\* The session as the closure sees it: the captured variables alone.
SpecState == Init /\ [][NextState]_vars

\* ------------------------------------------------------------------------
\* Concurrent calls of with_authentication
\* ------------------------------------------------------------------------

\* The requests the transports of concurrent calls make: no kind, one kind,
\* SSH_KEY with USER_PASS_PLAINTEXT, or every kind the callback handles.
SessionRequests ==
    {R \in RequestedSets :
        \/ Cardinality(R) <= 1
        \/ R = {SSH_KEY, USER_PASS_PLAINTEXT}
        \/ R = KnownKinds}

\* All calls keep their variables in the place of the first call, as they
\* would with variables that are static.
SlotShared(i) == 1

\* Where the call i keeps the variables its closure captures: they are
\* locals of the call (`let mut attempted`, ...), so each call has its own.
Slot(i) == i

\* The call i of with_authentication starts: it builds its variables.
WithAuthentication(i) ==
    /\ ~sessions[i].started
    /\ sessions' = [sessions EXCEPT ![Slot(i)] =
                        [started |-> TRUE, state |-> FreshSession]]
    /\ actor' = i
    /\ UNCHANGED <<attempted, failed_cred_helper, username_attempt,
                   username_attempts, cred_helper, env, last, returned,
                   consulted, fetch>>

\* The transport of the call i invokes the callback of that call.
SessionCallback(i, username, requested, ok) ==
    /\ sessions[i].started
    /\ \E r \in {Credentials(sessions[Slot(i)].state, env, cred_helper,
                              username, requested, ok)} :
          sessions' = [sessions EXCEPT ![Slot(i)].state = r.state]
    /\ actor' = i
    /\ UNCHANGED <<attempted, failed_cred_helper, username_attempt,
                   username_attempts, cred_helper, env, last, returned,
                   consulted, fetch>>

\* The call i returns: its variables are dropped.
SessionReturns(i) ==
    /\ sessions[i].started
    /\ sessions' = [sessions EXCEPT ![Slot(i)] = NoSession]
    /\ actor' = i
    /\ UNCHANGED <<attempted, failed_cred_helper, username_attempt,
                   username_attempts, cred_helper, env, last, returned,
                   consulted, fetch>>

NextSessions ==
    \E i \in SessionIds :
        \/ WithAuthentication(i)
        \/ \E username \in ArgNames, requested \in SessionRequests,
              ok \in BOOLEAN : SessionCallback(i, username, requested, ok)
        \/ SessionReturns(i)

SpecSessions == Init /\ [][NextSessions]_vars

\* ------------------------------------------------------------------------
\* fetch
\* ------------------------------------------------------------------------

\* The errors of the steps of fetch that are not the callback's.
ConfigError == "could not read the repository config"
RemoteError == "could not create the anonymous remote"
TransportErrors == {"network error", "refspec rejected"}

\* Propagate with the error replaced by one of fetch's own.
PropagateWrapped(raised) ==
    IF raised.ok THEN raised ELSE Err("fetch failed")

\* try!(e) with an error `raised` of the function's own error type, and the
\* closure's result handed back by with_authentication: the value returned
\* is the value raised.
Propagate(raised) == raised

\* fetch is called: nothing has run yet.
InitFetch ==
    /\ attempted = FreshSession.attempted
    /\ failed_cred_helper = FreshSession.failed_cred_helper
    /\ username_attempt = FreshSession.username_attempt
    /\ username_attempts = FreshSession.username_attempts
    /\ cred_helper \in [username : HelperNames]
    /\ env \in [GH_TOKEN : TokenValues, USER : UserValues,
                USERNAME : UsernameValues]
    /\ last = NoCall
    /\ returned = [b \in Branches |-> 0]
    /\ consulted = <<>>
    /\ fetch \in [pc : {"config"}, refspec : Refspecs, attempts : {<<>>},
                  stage : {None}, raised : {Ok}, result : {Ok}]
    /\ sessions = [i \in SessionIds |-> NoSession]
    /\ actor = 0

\* The step `stage` of fetch failed with `raised`: fetch returns.
FetchReturns(stage, raised) ==
    fetch' = [fetch EXCEPT !.pc = "done", !.stage = stage,
                           !.raised = raised, !.result = Propagate(raised)]

\* try!(repo.config()), evaluated before with_authentication is called.
FetchConfig(r) ==
    /\ fetch.pc = "config"
    /\ IF r.ok
       THEN fetch' = [fetch EXCEPT !.pc = "remote"]
       ELSE FetchReturns("config", r)
    /\ UNCHANGED <<attempted, failed_cred_helper, username_attempt,
                   username_attempts, cred_helper, env, last, returned,
                   consulted, sessions, actor>>

\* try!(repo.remote_anonymous(&url)) and, when it succeeds, the call
\* remote.fetch(&[refspec], Some(&mut opts), None).
FetchRemoteAnonymous(r) ==
    /\ fetch.pc = "remote"
    /\ IF r.ok
       THEN fetch' = [fetch EXCEPT !.pc = "transport",
                                   !.attempts = Append(@, <<fetch.refspec>>)]
       ELSE FetchReturns("remote", r)
    /\ UNCHANGED <<attempted, failed_cred_helper, username_attempt,
                   username_attempts, cred_helper, env, last, returned,
                   consulted, sessions, actor>>

\* The transport of remote.fetch invokes the credentials callback.
FetchCallback(username, requested, ok) ==
    /\ fetch.pc = "transport"
    /\ Callback(username, requested, ok)

\* What remote.fetch can return: success, an error of the transport, or the
\* error the callback returned last.
TransportResults ==
    {Ok} \cup {Err(e) : e \in TransportErrors}
         \cup (IF last.called /\ ~last.ret.ok THEN {Err(last.ret.err)} ELSE {})

\* try!(remote.fetch(..)); Ok(())
FetchTransportReturns(r) ==
    /\ fetch.pc = "transport"
    /\ FetchReturns("transport", r)
    /\ UNCHANGED <<attempted, failed_cred_helper, username_attempt,
                   username_attempts, cred_helper, env, last, returned,
                   consulted, sessions, actor>>

NextFetch ==
    \/ \E r \in {Ok, Err(ConfigError)} : FetchConfig(r)
    \/ \E r \in {Ok, Err(RemoteError)} : FetchRemoteAnonymous(r)
    \/ \E username \in ArgNames, requested \in RequestedSets,
          ok \in BOOLEAN : FetchCallback(username, requested, ok)
    \/ \E r \in TransportResults : FetchTransportReturns(r)

SpecFetch == InitFetch /\ [][NextFetch]_vars

TypeOK ==
    /\ attempted \subseteq Kinds
    /\ failed_cred_helper \in BOOLEAN
    /\ username_attempt \in {UsernameAttempt[i] : i \in 1..4}
    /\ username_attempts \in Seq(STRING)
    /\ last.called \in BOOLEAN

\* ------------------------------------------------------------------------
\* Properties
\* ------------------------------------------------------------------------

\* The invocation `last` describes returned a credential or a lookup result.
Answered == last.called /\ last.ret.branch \in Branches

\* The invocation `last` describes failed with "no authentication available".
Failed == last.called /\ last.ret = NoAuth

\* The kinds left of the request of the latest invocation when it started.
LastAllowed == last.requested \ last.before.attempted

\* The invocation `last` describes left the captured state as it was.
StateUnchanged == Session = last.before

\* Credentials returned so far, per kind and in total.
ReturnedOfKind(k) ==
    CASE k = USERNAME -> returned.Username
      [] k = USER_PASS_PLAINTEXT -> returned.Token + returned.CredHelper
      [] k = SSH_KEY -> returned.SshAgent
      [] k = DEFAULT -> returned.Default

TotalReturned ==
    returned.Username + returned.Token + returned.CredHelper
        + returned.SshAgent + returned.Default

\* Every invocation the transport could make now fails.
EveryInvocationFails ==
    \A u \in ArgNames, R \in SUBSET Kinds, ok \in BOOLEAN :
        Credentials(Session, env, cred_helper, u, R, ok).ret = NoAuth

\* C1: an invocation never returns a credential, or a lookup result, of a
\* kind that was in the attempted set when the invocation started.
C1_NeverReturnsAttemptedKind ==
    Answered => last.ret.kind \notin last.before.attempted

\* C1 witness: the request named an attempted kind and a credential of
\* another kind was returned.
C1_Witness ==
    /\ Answered
    /\ last.requested \cap last.before.attempted # {}

\* C2: SSH_KEY is the basis of a result at most 4 times, each other kind at
\* most once, so at most 7 invocations return a credential; after 7 every
\* further invocation fails.
C2_BoundedReturns ==
    /\ ReturnedOfKind(SSH_KEY) <= 4
    /\ ReturnedOfKind(USERNAME) <= 1
    /\ ReturnedOfKind(USER_PASS_PLAINTEXT) <= 1
    /\ ReturnedOfKind(DEFAULT) <= 1
    /\ TotalReturned <= 7
    /\ (TotalReturned = 7 => EveryInvocationFails)

\* C2 witness: 7 credentials were returned and the invocation after them
\* failed.
C2_Witness == TotalReturned = 7 /\ Failed

\* The position of a username source in the order Arg, CredHelper, Local,
\* Git.
SourceIndex(src) == CHOOSE i \in 1..4 : UsernameAttempt[i] = src

\* The name a source yields: the remote-supplied username, the credential
\* helper's username, the OS account name (USER, else USERNAME), "git".
SourceName(src, username) ==
    CASE src = "Arg" -> username
      [] src = "CredHelper" -> cred_helper.username
      [] src = "Local" -> IF env.USER # None THEN env.USER ELSE env.USERNAME
      [] src = "Git" -> "git"

\* C3: the ssh-agent lookups are made for at most 4 usernames; the sources
\* are consulted in the order Arg, CredHelper, Local, Git, each at most once
\* in the session; a source that yields no name is passed over in the same
\* invocation, with no lookup and no log entry: an invocation of the SSH_KEY
\* branch makes one lookup and one log entry, for the first source that
\* yields a name.
C3_UsernameSourcesInOrder ==
    /\ Len(username_attempts) <= 4
    /\ Len(username_attempts) = returned.SshAgent
    /\ Len(username_attempts) <= Len(consulted)
    /\ \A i, j \in 1..Len(consulted) :
          i < j => SourceIndex(consulted[i]) < SourceIndex(consulted[j])
    /\ (last.called /\ last.ret.branch = "SshAgent") =>
          /\ last.seen # <<>>
          /\ \A i \in 1..(Len(last.seen) - 1) :
                SourceName(last.seen[i], last.username) = None
          /\ last.ret.lookup # None
          /\ last.ret.lookup
                = SourceName(last.seen[Len(last.seen)], last.username)
          /\ username_attempts
                = Append(last.before.username_attempts, last.ret.lookup)
    /\ (last.called /\ last.ret.branch # "SshAgent") =>
          /\ last.seen = <<>>
          /\ username_attempts = last.before.username_attempts

\* C3 witness: a second lookup, made by an invocation that passed over a
\* source without a name.
C3_Witness ==
    /\ last.called
    /\ last.ret.branch = "SshAgent"
    /\ Len(last.seen) >= 2
    /\ Len(username_attempts) >= 2

\* C4: with GH_TOKEN set, an invocation that is left with USER_PASS_PLAINTEXT
\* and not with USERNAME returns the plaintext credential (token, ""); the
\* session returns one such credential and never consults the credential
\* helper.
C4_TokenFirst ==
    env.GH_TOKEN # None =>
        /\ returned.CredHelper = 0
        /\ returned.Token
             = (IF USER_PASS_PLAINTEXT \in attempted THEN 1 ELSE 0)
        /\ (/\ last.called
            /\ USER_PASS_PLAINTEXT \in LastAllowed
            /\ USERNAME \notin LastAllowed) =>
                /\ last.ret.branch = "Token"
                /\ last.ret.ok
                /\ last.ret.user = env.GH_TOKEN
                /\ last.ret.secret = ""
                /\ returned.Token = 1

\* C4 witness: the token credential was returned to a request that also
\* allowed SSH_KEY.
C4_Witness ==
    /\ env.GH_TOKEN # None
    /\ last.called
    /\ last.ret.branch = "Token"
    /\ SSH_KEY \in LastAllowed

\* C5: without a token the token step leaves the attempted set as it was:
\* when the SSH_KEY branch answers an invocation that was left with
\* USER_PASS_PLAINTEXT, USER_PASS_PLAINTEXT is not attempted afterwards and
\* a later request for it reaches the credential helper.
C5_TokenStepMarksOnlyWithToken ==
    (/\ last.called
     /\ env.GH_TOKEN = None
     /\ USER_PASS_PLAINTEXT \in LastAllowed
     /\ last.ret.branch = "SshAgent") =>
        /\ USER_PASS_PLAINTEXT \notin attempted
        /\ \A u \in ArgNames, ok \in BOOLEAN :
              Credentials(Session, env, cred_helper, u,
                          {USER_PASS_PLAINTEXT}, ok).ret.branch
                  = "CredHelper"

\* The failure a request of kinds the callback does not handle gets.
UnavailableFailure ==
    Credentials(Session, env, cred_helper, None, {SSH_CUSTOM}, TRUE).ret

\* The latest request was not empty and all of its kinds had been
\* attempted.
LastExhausted == last.called /\ last.requested # {} /\ LastAllowed = {}

\* C6 as stated: a request whose kinds have all been attempted fails with a
\* failure of its own, distinct from the one for kinds that are not handled,
\* and changes nothing.
C6_ExhaustedIsDistinctFailure ==
    LastExhausted =>
        /\ ~last.ret.ok
        /\ last.ret.branch \notin Branches
        /\ last.ret.err # UnavailableFailure.err
        /\ StateUnchanged

\* C6 amended: a request whose kinds have all been attempted fails with
\* "no authentication available", the same failure as for kinds that are
\* not handled, returns no credential and leaves the attempted set, the
\* username cursor and the attempt log unchanged.
C6_ExhaustedFailsUnchanged ==
    LastExhausted =>
        /\ last.ret = NoAuth
        /\ last.ret.err = NoAuthMessage
        /\ last.ret = UnavailableFailure
        /\ attempted = last.before.attempted
        /\ username_attempt = last.before.username_attempt
        /\ username_attempts = last.before.username_attempts

\* C6 witness: a request for two attempted kinds.
C6_Witness == LastExhausted /\ Cardinality(last.requested) >= 2

\* C7: a request with none of USERNAME, SSH_KEY, USER_PASS_PLAINTEXT and
\* DEFAULT fails with "no authentication available" and changes nothing of
\* the session: attempted set, cursor, log and helper-failure flag.
C7_UnknownKindsFailUnchanged ==
    (last.called /\ last.requested \cap KnownKinds = {}) =>
        /\ last.ret = NoAuth
        /\ last.ret.err = NoAuthMessage
        /\ attempted = last.before.attempted
        /\ username_attempt = last.before.username_attempt
        /\ username_attempts = last.before.username_attempts
        /\ failed_cred_helper = last.before.failed_cred_helper

\* C7 witness: a request for an unhandled kind alone, in a session that has
\* attempted nothing.
C7_Witness ==
    /\ last.called
    /\ last.requested = {SSH_CUSTOM}
    /\ last.before.attempted = {}

\* Some invocation with the request R, made now, fails with "no
\* authentication available" and makes no lookup.
CanFail(R) ==
    \E u \in ArgNames, ok \in BOOLEAN :
        Credentials(Session, env, cred_helper, u, R, ok).ret = NoAuth

\* Every invocation with the request R, made now, fails that way.
MustFail(R) ==
    \A u \in ArgNames, ok \in BOOLEAN :
        Credentials(Session, env, cred_helper, u, R, ok).ret = NoAuth

\* C8: a request that fails in a state of the session fails, with the same
\* failure, in the state after any invocation (the failing one included),
\* hence after any number of invocations: no attempted kind is offered
\* again.
C8_FailureIsIdempotent ==
    [][\A R \in RequestedSets : CanFail(R) => MustFail(R)']_vars

\* C8 witness: the request for the kinds attempted so far fails while other
\* kinds are still open.
C8_Witness ==
    /\ attempted # {}
    /\ attempted # KnownKinds
    /\ MustFail(attempted)

\* 1 if the condition holds, else 0.
Count(b) == IF b THEN 1 ELSE 0

\* The last element of a sequence that is not empty.
LastOf(seq) == seq[Len(seq)]

\* C9 as stated: in scenario C the session has made exactly 4 ssh-agent
\* attempts when an invocation fails.
C9_ExactlyFourAttempts ==
    Failed => returned.SshAgent = 4 /\ Len(username_attempts) = 4

\* C9 amended: in scenario C the session makes one ssh-agent attempt for
\* each username source that yields a name, 4 when every source does and
\* at least the one for "git"; invocations are answered by a lookup until
\* the four sources have been consulted, and every invocation after that
\* fails with "no authentication available", without a further lookup.
C9_OneAttemptPerNamedSource ==
    /\ returned.SshAgent = Len(username_attempts)
    /\ Len(username_attempts) <= Len(consulted)
    /\ Len(consulted) <= 4
    /\ (Len(consulted) < 4 => ~CanFail({SSH_KEY}))
    /\ (Len(consulted) = 4 => MustFail({SSH_KEY}))
    /\ Failed =>
          /\ last.ret.err = NoAuthMessage
          /\ StateUnchanged
          /\ Len(consulted) = 4
          /\ LastOf(username_attempts) = "git"
          /\ Len(username_attempts)
                = 1 + Count(username_attempts[1] \in ArgNames \ {None})
                    + Count(cred_helper.username # None)
                    + Count(env.USER # None \/ env.USERNAME # None)

\* C9 witness: four attempts, one for each source, and then the failure.
C9_Witness == Failed /\ Len(username_attempts) = 4

\* The latest invocation returned the error of a lookup that failed.
LookupFailed == Answered /\ ~last.ret.ok

\* No invocation made now is answered with the kind k.
NeverAgain(k) ==
    \A u \in ArgNames, R \in SUBSET Kinds, ok \in BOOLEAN :
        Credentials(Session, env, cred_helper, u, R, ok).ret.kind # k

\* C10 as stated: when the error of a failed attempt is returned, the kind
\* of the attempt is in the attempted set and no later invocation makes an
\* attempt of that kind.
C10_FailedKindIsAttempted ==
    LookupFailed =>
        /\ last.ret.kind \in attempted
        /\ NeverAgain(last.ret.kind)

\* C10 amended: the attempts that can fail are the credential-helper
\* lookup and the ssh-agent lookup. When the helper lookup, or the agent
\* lookup for the last source "git", fails, the kind is in the attempted
\* set and no later invocation makes an attempt of that kind. When the agent
\* lookup for an earlier source fails, SSH_KEY is not attempted yet: an
\* invocation that asks for SSH_KEY makes another agent lookup, and it
\* consults only sources after the one that failed.
C10_FailedAttemptNotRepeated ==
    LookupFailed =>
        /\ last.ret.branch \in {"SshAgent", "CredHelper"}
        /\ (\/ last.ret.branch = "CredHelper"
            \/ LastOf(last.seen) = "Git") =>
                /\ last.ret.kind \in attempted
                /\ NeverAgain(last.ret.kind)
        /\ (last.ret.branch = "SshAgent" /\ LastOf(last.seen) # "Git") =>
                /\ SSH_KEY \notin attempted
                /\ \A u \in ArgNames, ok \in BOOLEAN :
                      LET r == Credentials(Session, env, cred_helper, u,
                                           {SSH_KEY}, ok)
                      IN  /\ r.ret.branch = "SshAgent"
                          /\ r.seen # <<>>
                          /\ \A i \in 1..Len(r.seen) :
                                SourceIndex(r.seen[i])
                                    > SourceIndex(LastOf(last.seen))

\* C10 witness: the agent lookup for the remote-supplied username failed.
C10_Witness ==
    /\ LookupFailed
    /\ last.ret.branch = "SshAgent"
    /\ LastOf(last.seen) = "Arg"

\* Scenario A after its first invocation: the transport asked a fresh
\* session for USERNAME alone, without a remote username; there is no token
\* and no helper username, and the OS user is "alice".
ScenarioAFirst ==
    /\ last.called
    /\ last.before = FreshSession
    /\ last.requested = {USERNAME}
    /\ last.username = None
    /\ env.GH_TOKEN = None
    /\ cred_helper.username = None
    /\ env.USER = "alice"

\* C11: an invocation left with USERNAME is answered by the username
\* credential, for the remote-supplied username or else "git"; it adds
\* USERNAME to the attempted set and changes nothing else, neither the
\* cursor nor the log nor SSH_KEY. So in scenario A the first answer is the
\* username "git" and the answer to a following request for SSH_KEY is the
\* ssh-agent lookup for "alice".
C11_UsernameIsPureStep ==
    /\ (last.called /\ USERNAME \in LastAllowed) =>
          last.ret.branch = "Username"
    /\ (last.called /\ last.ret.branch = "Username") =>
          /\ last.ret.ok
          /\ last.ret.user
                = (IF last.username # None THEN last.username ELSE "git")
          /\ attempted = last.before.attempted \cup {USERNAME}
          /\ SSH_KEY \in attempted <=> SSH_KEY \in last.before.attempted
          /\ username_attempt = last.before.username_attempt
          /\ username_attempts = last.before.username_attempts
          /\ failed_cred_helper = last.before.failed_cred_helper
    /\ ScenarioAFirst =>
          /\ last.ret.branch = "Username"
          /\ last.ret.user = "git"
          /\ \A ok \in BOOLEAN :
                LET r == Credentials(Session, env, cred_helper, None,
                                     {SSH_KEY}, ok)
                IN  /\ r.ret.branch = "SshAgent"
                    /\ r.ret.lookup = "alice"
                    /\ r.ret.ok = ok
                    /\ r.state.username_attempts = <<"alice">>

\* C11 witness: scenario A after its first invocation.
C11_Witness == ScenarioAFirst

\* C12: one call of fetch makes one call of the transport's fetch, for the
\* given refspec alone, and none when reading the config or opening the
\* remote fails; fetch returns success only when that call succeeded, and
\* the failure of the config, the remote, the callback or the transport is
\* returned as it was raised.
C12_OneAttemptErrorsUnmodified ==
    /\ Len(fetch.attempts) <= 1
    /\ \A i \in 1..Len(fetch.attempts) :
          fetch.attempts[i] = <<fetch.refspec>>
    /\ fetch.pc \in {"config", "remote"} =>
          fetch.attempts = <<>> /\ ~last.called
    /\ fetch.pc = "transport" => Len(fetch.attempts) = 1
    /\ fetch.pc = "done" =>
          /\ fetch.result = fetch.raised
          /\ fetch.stage \in {"config", "remote"} =>
                /\ fetch.attempts = <<>>
                /\ ~last.called
                /\ ~fetch.result.ok
          /\ fetch.stage = "config" => fetch.result = Err(ConfigError)
          /\ fetch.stage = "remote" => fetch.result = Err(RemoteError)
          /\ fetch.stage = "transport" => Len(fetch.attempts) = 1
          /\ fetch.result.ok => fetch.stage = "transport"

\* C12 witness: the transport gave up with the callback's "no
\* authentication available" and fetch returned it.
C12_Witness ==
    /\ fetch.pc = "done"
    /\ fetch.stage = "transport"
    /\ last.called
    /\ fetch.result = Err(NoAuthMessage)

\* C13: a call of with_authentication starts with an empty attempted set,
\* the cursor at the remote-supplied source and an empty log, whatever an
\* earlier or a concurrent call did; and a step of one call, however
\* interleaved with another call's, leaves the other call's attempted set,
\* cursor and log as they were.
C13_SessionsAreSeparate ==
    [][/\ \A i \in SessionIds :
            (~sessions[i].started /\ sessions'[i].started) =>
                /\ sessions'[i].state.attempted = {}
                /\ sessions'[i].state.username_attempt = "Arg"
                /\ sessions'[i].state.username_attempts = <<>>
       /\ \A j \in SessionIds \ {actor'} : sessions'[j] = sessions[j]]_vars

\* C13 witness: both calls are running and have attempted different kinds.
C13_Witness ==
    /\ sessions[1].started
    /\ sessions[2].started
    /\ sessions[1].state.attempted # {}
    /\ sessions[2].state.attempted # {}
    /\ sessions[1].state.attempted # sessions[2].state.attempted

\* The answer the priority Username, token, SshKey, credential helper,
\* Default gives to the kinds an invocation is left with.
FirstApplicable(allowed, token) ==
    CASE USERNAME \in allowed -> "Username"
      [] USERNAME \notin allowed /\ USER_PASS_PLAINTEXT \in allowed
            /\ token # None -> "Token"
      [] USERNAME \notin allowed /\ SSH_KEY \in allowed
            /\ ~(USER_PASS_PLAINTEXT \in allowed /\ token # None)
            -> "SshAgent"
      [] {USERNAME, SSH_KEY} \cap allowed = {}
            /\ USER_PASS_PLAINTEXT \in allowed /\ token = None
            -> "CredHelper"
      [] {USERNAME, SSH_KEY, USER_PASS_PLAINTEXT} \cap allowed = {}
            /\ DEFAULT \in allowed -> "Default"
      [] KnownKinds \cap allowed = {} -> "NoAuth"

\* C14: an invocation is answered by the first applicable branch in the
\* order Username, token, SshKey, credential helper, Default, applied to the
\* request less the attempted kinds, the token branch applying only with a
\* token; the result is that one branch's: its kind is the branch's kind,
\* and the agent lookup and the helper lookup are made only by their own
\* branches.
C14_FirstApplicableBranch ==
    last.called =>
        /\ last.ret.branch = FirstApplicable(LastAllowed, env.GH_TOKEN)
        /\ last.ret.branch \in Branches \cup {"NoAuth"}
        /\ last.ret.kind
             = (CASE last.ret.branch = "Username" -> USERNAME
                  [] last.ret.branch \in {"Token", "CredHelper"}
                        -> USER_PASS_PLAINTEXT
                  [] last.ret.branch = "SshAgent" -> SSH_KEY
                  [] last.ret.branch = "Default" -> DEFAULT
                  [] last.ret.branch = "NoAuth" -> None)
        /\ last.ret.branch # "SshAgent" =>
              /\ last.seen = <<>>
              /\ username_attempt = last.before.username_attempt
              /\ username_attempts = last.before.username_attempts
        /\ last.ret.branch # "CredHelper" =>
              failed_cred_helper = last.before.failed_cred_helper

\* C14 witness: an invocation left with SshKey, UserPassPlaintext and
\* Default, without a token, answered by the ssh agent.
C14_Witness ==
    /\ last.called
    /\ LastAllowed = {SSH_KEY, USER_PASS_PLAINTEXT, DEFAULT}
    /\ env.GH_TOKEN = None
    /\ last.ret.branch = "SshAgent"

\* The elements of a sequence.
Range(seq) == {seq[i] : i \in 1..Len(seq)}

\* C15: SSH_KEY is in the attempted set exactly when the cursor is at the
\* last source and the lookup for that source, "git", has been made; it
\* enters the set in the invocation that makes that lookup and in no earlier
\* one; and an agent lookup's outcome, success or error, is what the
\* invocation returns.
C15_SshKeyMarkedAtGitLookup ==
    /\ SSH_KEY \in attempted <=>
          (username_attempt = "Git" /\ "Git" \in Range(consulted))
    /\ last.called =>
          /\ (SSH_KEY \in attempted /\ SSH_KEY \notin last.before.attempted)
                <=> "Git" \in Range(last.seen)
          /\ "Git" \in Range(last.seen) =>
                /\ last.ret.branch = "SshAgent"
                /\ last.ret.lookup = "git"
                /\ LastOf(username_attempts) = "git"
    /\ SSH_KEY \notin attempted =>
          \A u \in ArgNames, ok \in BOOLEAN :
              LET r == Credentials(Session, env, cred_helper, u, {SSH_KEY}, ok)
              IN  /\ r.ret.branch = "SshAgent"
                  /\ r.ret.ok = ok
                  /\ ok => (r.ret.user = r.ret.lookup /\ r.ret.err = None)
                  /\ ~ok => (r.ret.user = None /\ r.ret.err # None
                                /\ r.ret.err # NoAuthMessage)

\* C15 witness: the OS account name has been looked up, so the cursor is at
\* the last source, and SSH_KEY is not attempted yet.
C15_Witness ==
    /\ last.called
    /\ last.ret.branch = "SshAgent"
    /\ LastOf(last.seen) = "Local"
    /\ username_attempt = "Git"
    /\ SSH_KEY \notin attempted

\* C16: no invocation removes a kind from the attempted set, and a kind
\* enters the set only in an invocation that returns a credential, or a
\* lookup result, of that kind.
C16_KindEntersWithItsResult ==
    last.called =>
        /\ last.before.attempted \subseteq attempted
        /\ \A k \in attempted \ last.before.attempted :
              Answered /\ last.ret.kind = k

\* C17: an invocation ends with one outcome, a credential, a lookup error or
\* "no authentication available"; the username loop makes at most 4
\* iterations in one invocation, because it starts at the cursor and takes
\* the sources one after another, forwards, and the last source, Git,
\* yields the name "git" and ends it.
C17_LoopRunsAtMostFourTimes ==
    last.called =>
        /\ last.ret.branch \in Branches \cup {"NoAuth"}
        /\ last.ret.ok <=> last.ret.err = None
        /\ last.ret.ok => last.ret.branch \in Branches
        /\ Len(last.seen) <= 4
        /\ SourceIndex(username_attempt)
              >= SourceIndex(last.before.username_attempt)
        /\ last.seen # <<>> =>
              /\ last.seen[1] = last.before.username_attempt
              /\ \A i \in 1..(Len(last.seen) - 1) :
                    SourceIndex(last.seen[i + 1])
                        = SourceIndex(last.seen[i]) + 1
              /\ \A i \in 1..(Len(last.seen) - 1) : last.seen[i] # "Git"
        /\ "Git" \in Range(last.seen) => last.ret.lookup = "git"

\* C17 witness: an invocation whose loop went through all four sources.
C17_Witness == last.called /\ Len(last.seen) = 4

====
